---- MODULE Spec2Model ----
(***************************************************************************)
(* A state-machine model of coinex_bot: one exchange client instance       *)
(* (CoinexTradingBot), the signals submitted to it, its position registry  *)
(* (active_trades) and the take-profit monitoring threads it starts.       *)
(*                                                                         *)
(* The repository holds two classes named CoinexTradingBot: the packaged   *)
(* one (coinex_bot/trading_bot.py), which keeps active_trades and starts   *)
(* monitor threads, and the one main.py defines after importing the first  *)
(* (main.py:85), which shadows the import and is the class the chat bot    *)
(* instantiates (main.py:385, 443).  impl says which class the instance    *)
(* is: "lib" or "main".                                                    *)
(*                                                                         *)
(* Units.  Prices are whole numbers; for whole-number prices the float     *)
(* comparison (cur - entry) / entry >= 0.15 agrees with the exact rational *)
(* comparison used here.  Balances are in cents of USDT and order amounts  *)
(* in units of 0.0001 (the 4 decimals of round(position_size, 4)).         *)
(***************************************************************************)
EXTENDS Integers, Sequences, FiniteSets, TLC

VARIABLES
    impl,           \* which CoinexTradingBot class the instance is
    active_trades,  \* self.active_trades: symbol -> entry (lib class only)
    threads,        \* the monitor_take_profit threads started, in order
    call,           \* the process_trade_signal call in flight, if any
    result,         \* what the last process_trade_signal call returned
    nSignals,       \* number of process_trade_signal calls made so far
    ev,             \* the last step taken and what it exchanged
    format_handlers,\* TradingBot.format_handlers of one user: name -> pattern
    arg,            \* the input of the function a function-level run applies
    ret,            \* what that function produced (None: not applied yet)
    signal_formats, \* the user's rows of table signal_formats: name, pattern
    trading_enabled,\* TradingBot.trading_enabled: user -> flag
    user_bots,      \* TradingBot.user_bots: user -> that user's client
    inbox,          \* channel posts received and not yet handled
    delivery        \* the handle_channel_message run in progress, if any

vars == <<impl, active_trades, threads, call, result, nSignals, ev,
          format_handlers, arg, ret,
          signal_formats, trading_enabled, user_bots, inbox, delivery>>

(* The state of the TradingBot object around its users' clients.           *)
tg == <<signal_formats, trading_enabled, user_bots, inbox, delivery>>

(* What the steps of a CoinexTradingBot instance leave alone.              *)
aux == <<format_handlers, arg, ret, tg>>

(***************************************************************************)
(* Bounds and input domains                                                *)
(***************************************************************************)
MaxSignals == 2

Symbols == {"BTCUSDT", "ETHUSDT"}
Prices == {0, 100, 115}
WidePrices == {0, 85, 86, 100, 114, 115}
Balances == {0, 5, 10, 2000}
Codes == {0, -1, 4213}

(***************************************************************************)
(* Program constants                                                       *)
(***************************************************************************)
TargetProfitPct == 15
RiskPct == 5

None == <<>>
Some(x) == <<x>>

(***************************************************************************)
(* send_request: what a call can produce.  It returns a decoded response   *)
(* (code 0, an exchange error code, 4213 for the normalized rate limit,    *)
(* -1 for a transport failure), or lets an exception escape (a ValueError  *)
(* from int(remaining) or from response.json() is not a RequestException). *)
(***************************************************************************)
send_request ==
    [raised : {FALSE}, code : Codes] \cup {[raised |-> TRUE, code |-> 0]}

NoOut == [raised |-> FALSE, code |-> 0]

(* get_current_price: the last price on code 0, None otherwise; every      *)
(* exception is caught and turned into None.                               *)
(* Variant: the response code is not looked at.                            *)
get_current_price_AnyCode(o, last) ==
    IF o.raised THEN None ELSE Some(last)

get_current_price(o, last) ==
    IF o.raised \/ o.code # 0 THEN None ELSE Some(last)

(* round(x, 4) of x = num / den, in units of 0.0001, for den > 0.  An      *)
(* exact tie is decided by the float error of x, so both neighbours are    *)
(* possible.                                                               *)
(* Variant: the digits after the fourth are dropped.                       *)
Round4_Floor(num, den) == {num \div den}

Round4(num, den) ==
    LET q == num \div den
        r == num % den
    IN  IF 2 * r < den THEN {q}
        ELSE IF 2 * r > den THEN {q + 1}
        ELSE {q, q + 1}

(* calculate_position_size: raises when send_request does (or when the     *)
(* payload has no data.USDT.available), or on a zero price                 *)
(* (ZeroDivisionError); 0.0 when the balance lookup failed.  With bal in   *)
(* cents, (bal / 100 * 0.05) / price is bal * 5 / price units of 0.0001.   *)
CalcRaises(o, price) == o.raised \/ (o.code = 0 /\ price = 0)

calculate_position_size(o, bal, price) ==
    IF o.code # 0 THEN {0}
    ELSE IF price > 0 THEN Round4(bal * RiskPct, price)
    ELSE {0 - a : a \in Round4(bal * RiskPct, 0 - price)}

(* profit_pct >= target_profit in monitor_take_profit, for entry > 0.      *)
ProfitNum(side, entry, cur) ==
    IF side = "buy" THEN cur - entry ELSE entry - cur

(* Variant: > in place of >=.                                              *)
TakeProfitReached_Strict(side, entry, cur) ==
    100 * ProfitNum(side, entry, cur) > TargetProfitPct * entry

TakeProfitReached(side, entry, cur) ==
    100 * ProfitNum(side, entry, cur) >= TargetProfitPct * entry

(* Variant: the close repeats the opening side.                            *)
CloseSide_Same(side) == side

CloseSide(side) == IF side = "buy" THEN "sell" ELSE "buy"

(* if amount <= 0: return None                                             *)
(* Variant: < in place of <=.                                              *)
InvalidSize_Negative(amount) == amount < 0

InvalidSize(amount) == amount <= 0

(* if response.get("code") == 0, after the opening order                   *)
(* Variant: the response code is not looked at.                            *)
OrderAccepted_Any(o) == TRUE

OrderAccepted(o) == o.code = 0

(***************************************************************************)
(* Signals.  A signal text is described by the pattern it fits, the side   *)
(* and symbol it names and its price text: Some(p) when float() accepts    *)
(* it, None when [\d.]+ matched a text float() rejects ("1.2.3").          *)
(***************************************************************************)
Signals ==
    [fmt : {"enter", "tp3"}, side : {"LONG", "SHORT"}, symbol : Symbols,
     price : {Some(0), Some(100), None}]
    \cup {[fmt |-> "junk", side |-> "LONG", symbol |-> "BTCUSDT", price |-> None]}

(* The order side of a signal side.                                        *)
(* Variant: the two sides exchanged.                                       *)
ApiSide_Swapped(side) == IF side = "LONG" THEN "sell" ELSE "buy"

ApiSide(side) == IF side = "LONG" THEN "buy" ELSE "sell"

(***************************************************************************)
(* Texts.  re.search finds a pattern anywhere in a text, so a text is a    *)
(* sequence of fragments, each fitting the first pattern ("enter":         *)
(* ENTER-LONG/SHORT with a leverage), the second ("tp3": LONG/SHORT TP3,   *)
(* which names no leverage) or neither ("junk").  A price text is made of  *)
(* digits and dots: it has no sign.                                        *)
(***************************************************************************)
MaxFragments == 2
Leverages == {5, 20}
DefaultLeverage == 10

Fragments ==
    [fmt : {"enter"}, side : {"LONG", "SHORT"}, symbol : Symbols,
     price : {Some(0), Some(100), None}, lev : Leverages]
    \cup [fmt : {"tp3"}, side : {"LONG", "SHORT"}, symbol : Symbols,
          price : {Some(0), Some(100), None}, lev : {0}]
    \cup {[fmt |-> "junk", side |-> "LONG", symbol |-> "BTCUSDT",
           price |-> None, lev |-> 0]}

Texts == UNION {[1 .. n -> Fragments] : n \in 0 .. MaxFragments}

(* The one-fragment text of a signal.                                      *)
TextOf(sig) ==
    <<[fmt |-> sig.fmt, side |-> sig.side, symbol |-> sig.symbol,
       price |-> sig.price, lev |-> IF sig.fmt = "enter" THEN DefaultLeverage ELSE 0]>>

(* re.search(pattern, text): the leftmost fragment that fits the pattern.  *)
(* Variant: every fragment fits every pattern.                             *)
re_search_Any(pattern, text) ==
    IF text = <<>> THEN None ELSE Some(text[1])

re_search(pattern, text) ==
    LET fits == {i \in 1 .. Len(text) : text[i].fmt = pattern}
    IN  IF fits = {}
        THEN None
        ELSE Some(text[CHOOSE i \in fits : \A j \in fits : i <= j])

(* The groups of a match turned into values: float(price) raises on a text *)
(* such as "1.2.3", and process_trade_signal then returns None.            *)
Extract(f, leverage) ==
    IF f.price = None
    THEN None
    ELSE Some([symbol |-> f.symbol, side |-> ApiSide(f.side),
               price |-> f.price[1], lev |-> leverage])

(* The parse of process_trade_signal in trading_bot.py: the first pattern, *)
(* and the second only if the first found nothing.                         *)
(* Variant: the second pattern is tried first.                             *)
ParseLibText_SecondFirst(text) ==
    LET m1 == re_search("enter", text)
        m2 == re_search("tp3", text)
    IN  IF m2 # None THEN Extract(m2[1], DefaultLeverage)
        ELSE IF m1 # None THEN Extract(m1[1], m1[1].lev)
        ELSE None

ParseLibText(text) ==
    LET m1 == re_search("enter", text)
        m2 == re_search("tp3", text)
    IN  IF m1 # None THEN Extract(m1[1], m1[1].lev)
        ELSE IF m2 # None THEN Extract(m2[1], DefaultLeverage)
        ELSE None

(* The parse of process_trade_signal in main.py: the first pattern only.   *)
ParseMainText(text) ==
    LET m1 == re_search("enter", text)
    IN  IF m1 # None THEN Extract(m1[1], m1[1].lev) ELSE None

ParseLib(sig) == ParseLibText(TextOf(sig))

ParseMain(sig) == ParseMainText(TextOf(sig))

(***************************************************************************)
(* State helpers                                                           *)
(***************************************************************************)
Idle == [pc |-> "idle", symbol |-> "BTCUSDT", side |-> "buy", price |-> 0,
         amount |-> 0]

Pending == [kind |-> "pending", code |-> 0]
RetNone == [kind |-> "None", code |-> 0]
RetResp(c) == [kind |-> "resp", code |-> c]

(* ev: the step just taken and the requests it made.  kind names the step; *)
(* t is the monitor thread that took it (0: the signal call); symbol,      *)
(* entry and opened describe the position a monitor step was about; price  *)
(* is what a price lookup produced; side and amount are those of the order *)
(* request the step sent ("-": it sent none); raised and code are the      *)
(* outcome of that order request or, for a lookup step of a call, of the   *)
(* lookup (raised also when the sizing itself raised); dup says whether    *)
(* the symbol was registered when an opening order was sent; text is the   *)
(* signal a submit step was given, or the example an add-format step was   *)
(* given with the format (name and pattern); user is the user a chat step  *)
(* was for, sends the notifications Telegram accepted for the signal a     *)
(* step finished, and left the subscribers an aborted delivery never got   *)
(* to.                                                                     *)
NoEv ==
    [kind |-> "init", t |-> 0, symbol |-> "-", entry |-> 0, opened |-> "-",
     price |-> None, side |-> "-", amount |-> 0, raised |-> FALSE, code |-> 0,
     dup |-> FALSE, text |-> None, format |-> None,
     user |-> "-", sends |-> 0, left |-> <<>>]

EmptyTrades == [s \in {} |-> 0]
NoFormats == [n \in {} |-> "-"]

(* The TradingBot object as constructed over an empty database.            *)
Users == {"u1", "u2"}
NoBots == [u \in {} |-> "-"]
NoChannel ==
    /\ signal_formats = {}
    /\ trading_enabled = [u \in Users |-> FALSE]
    /\ user_bots = NoBots
    /\ inbox = <<>>
    /\ delivery = None
Put(f, k, v) == [x \in DOMAIN f \cup {k} |-> IF x = k THEN v ELSE f[x]]
Remove(f, k) == [x \in DOMAIN f \ {k} |-> f[x]]

ThreadIds == 1 .. Len(threads)
Running(t) == threads[t].pc # "done"

(* A thread that has returned holds no state.                              *)
DoneThread ==
    [symbol |-> "-", entry_price |-> 0, side |-> "-", pc |-> "done",
     response |-> None]

Init ==
    /\ impl \in {"lib", "main"}
    /\ active_trades = EmptyTrades
    /\ threads = <<>>
    /\ call = Idle
    /\ result = Pending
    /\ nSignals = 0
    /\ ev = NoEv
    /\ format_handlers = NoFormats
    /\ NoChannel
    /\ arg = None
    /\ ret = None

(* A call that returns: the instance is idle again.                        *)
Return(r) ==
    /\ call' = Idle
    /\ result' = r

(***************************************************************************)
(* process_trade_signal of trading_bot.py.  The call is at "price" (about  *)
(* to look the price up), "size" (about to size the order) or "order"      *)
(* (about to place it).  Monitor threads run between its steps.            *)
(***************************************************************************)
process_trade_signal(sig) ==
    /\ impl = "lib"
    /\ call.pc = "idle"
    /\ nSignals < MaxSignals
    /\ nSignals' = nSignals + 1
    /\ LET m == ParseLib(sig) IN
         IF m = None
         THEN Return(RetNone)
         ELSE /\ call' = [Idle EXCEPT !.pc = "price", !.symbol = m[1].symbol,
                                      !.side = m[1].side]
              /\ result' = Pending
    /\ ev' = [NoEv EXCEPT !.kind = "submit", !.text = Some(sig)]
    /\ UNCHANGED aux
    /\ UNCHANGED <<impl, active_trades, threads>>

PTS_price ==
    /\ impl = "lib"
    /\ call.pc = "price"
    /\ \E o \in send_request, last \in Prices :
         LET cp == get_current_price(o, last) IN
           /\ IF cp = None
              THEN Return(RetNone)
              ELSE /\ call' = [call EXCEPT !.pc = "size", !.price = cp[1]]
                   /\ UNCHANGED result
           /\ ev' = [NoEv EXCEPT !.kind = "price", !.price = cp,
                                 !.raised = o.raised, !.code = o.code]
    /\ UNCHANGED aux
    /\ UNCHANGED <<impl, active_trades, threads, nSignals>>

PTS_size ==
    /\ impl = "lib"
    /\ call.pc = "size"
    /\ \E o \in send_request, bal \in Balances :
         IF CalcRaises(o, call.price)
         THEN /\ Return(RetNone)
              /\ ev' = [NoEv EXCEPT !.kind = "size", !.raised = TRUE]
         ELSE \E amount \in calculate_position_size(o, bal, call.price) :
                /\ IF InvalidSize(amount)
                   THEN Return(RetNone)
                   ELSE /\ call' = [call EXCEPT !.pc = "order", !.amount = amount]
                        /\ UNCHANGED result
                /\ ev' = [NoEv EXCEPT !.kind = "size", !.amount = amount,
                                      !.code = o.code]
    /\ UNCHANGED aux
    /\ UNCHANGED <<impl, active_trades, threads, nSignals>>

(* The order request and, on code 0, the registration, the start of the    *)
(* monitor thread and the return of the response.                          *)
PTS_order ==
    /\ impl = "lib"
    /\ call.pc = "order"
    /\ \E o \in send_request :
         /\ IF o.raised
            THEN /\ Return(RetNone)
                 /\ UNCHANGED <<active_trades, threads>>
            ELSE IF OrderAccepted(o)
            THEN /\ active_trades' =
                      Put(active_trades, call.symbol,
                          [entry_price |-> call.price, side |-> call.side,
                           order_id |-> Len(threads) + 1])
                 /\ threads' =
                      Append(threads,
                             [symbol |-> call.symbol, entry_price |-> call.price,
                              side |-> call.side, pc |-> "poll",
                              response |-> None])
                 /\ Return(RetResp(0))
            ELSE /\ Return(RetResp(o.code))
                 /\ UNCHANGED <<active_trades, threads>>
         /\ ev' = [NoEv EXCEPT !.kind = "order", !.symbol = call.symbol,
                               !.side = call.side, !.amount = call.amount,
                               !.raised = o.raised, !.code = o.code,
                               !.dup = call.symbol \in DOMAIN active_trades]
    /\ UNCHANGED aux
    /\ UNCHANGED <<impl, nSignals>>

(***************************************************************************)
(* monitor_take_profit of trading_bot.py, one thread per accepted order.   *)
(* A thread is at "poll" (at the top of the loop), "del" (it has found     *)
(* symbol in active_trades and is about to delete the entry) or "done"     *)
(* (after the break).  The membership test and the delete are two steps:   *)
(* another thread can run between them.  An exception inside the loop body *)
(* is caught and the loop goes on to its next tick.                        *)
(***************************************************************************)
MonitorEv(t, kind) ==
    [NoEv EXCEPT !.kind = kind, !.t = t, !.symbol = threads[t].symbol,
                 !.entry = threads[t].entry_price, !.opened = threads[t].side]

(* Variant: break in place of continue.                                    *)
OnLookupFailed_Break(t) == [threads EXCEPT ![t] = DoneThread]

(* if current_price is None: time.sleep(1); continue                       *)
OnLookupFailed(t) == threads

(* One tick up to the membership test: the price lookup, the comparison    *)
(* and, when the target is reached, the closing order.                     *)
MTP_tick(t, quotes) ==
    /\ threads[t].pc = "poll"
    /\ \E po \in send_request, last \in quotes :
         LET cp == get_current_price(po, last)
             th == threads[t]
             hit == /\ cp # None
                    /\ th.entry_price # 0
                    /\ TakeProfitReached(th.side, th.entry_price, cp[1])
         IN  IF ~hit
             THEN /\ threads' = IF cp = None THEN OnLookupFailed(t) ELSE threads
                  /\ ev' = [MonitorEv(t, "poll") EXCEPT !.price = cp]
             ELSE \E co \in send_request :
                    /\ threads' =
                         IF co.raised
                         THEN threads
                         ELSE IF th.symbol \in DOMAIN active_trades
                         THEN [threads EXCEPT ![t].pc = "del",
                                              ![t].response = Some(co.code)]
                         ELSE [threads EXCEPT ![t] = DoneThread]
                    /\ ev' = [MonitorEv(t, "close") EXCEPT
                                 !.price = cp, !.side = CloseSide(th.side),
                                 !.raised = co.raised, !.code = co.code]
    /\ UNCHANGED aux
    /\ UNCHANGED <<impl, active_trades, call, result, nSignals>>

(* del self.active_trades[symbol]; break.  A KeyError is caught by the     *)
(* loop's except clause, which skips the break.                            *)
MTP_del(t) ==
    /\ threads[t].pc = "del"
    /\ IF threads[t].symbol \in DOMAIN active_trades
       THEN /\ active_trades' = Remove(active_trades, threads[t].symbol)
            /\ threads' = [threads EXCEPT ![t] = DoneThread]
       ELSE /\ UNCHANGED active_trades
            /\ threads' = [threads EXCEPT ![t].pc = "poll",
                                          ![t].response = None]
    /\ ev' = [MonitorEv(t, "del") EXCEPT !.code = threads[t].response[1]]
    /\ UNCHANGED aux
    /\ UNCHANGED <<impl, call, result, nSignals>>

(***************************************************************************)
(* process_trade_signal and place_order of main.py: the class the chat bot *)
(* instantiates.  It keeps no registry and starts no thread.               *)
(***************************************************************************)
Main_process_trade_signal(sig) ==
    /\ impl = "main"
    /\ call.pc = "idle"
    /\ nSignals < MaxSignals
    /\ nSignals' = nSignals + 1
    /\ LET m == ParseMain(sig) IN
         IF m = None
         THEN Return(RetNone)
         ELSE /\ call' = [Idle EXCEPT !.pc = "market", !.symbol = m[1].symbol,
                                      !.side = m[1].side, !.price = m[1].price]
              /\ result' = Pending
    /\ ev' = [NoEv EXCEPT !.kind = "submit", !.text = Some(sig)]
    /\ UNCHANGED aux
    /\ UNCHANGED <<impl, active_trades, threads>>

Main_market ==
    /\ impl = "main"
    /\ call.pc = "market"
    /\ \E o \in send_request :
         /\ IF o.raised \/ o.code # 0
            THEN Return(RetNone)
            ELSE /\ call' = [call EXCEPT !.pc = "msize"]
                 /\ UNCHANGED result
         /\ ev' = [NoEv EXCEPT !.kind = "market", !.raised = o.raised,
                               !.code = o.code]
    /\ UNCHANGED aux
    /\ UNCHANGED <<impl, active_trades, threads, nSignals>>

Main_size ==
    /\ impl = "main"
    /\ call.pc = "msize"
    /\ \E o \in send_request, bal \in Balances :
         IF CalcRaises(o, call.price)
         THEN /\ Return(RetNone)
              /\ ev' = [NoEv EXCEPT !.kind = "size", !.raised = TRUE]
         ELSE \E amount \in calculate_position_size(o, bal, call.price) :
                /\ IF InvalidSize(amount)
                   THEN Return(RetNone)
                   ELSE /\ call' = [call EXCEPT !.pc = "place", !.amount = amount]
                        /\ UNCHANGED result
                /\ ev' = [NoEv EXCEPT !.kind = "size", !.amount = amount,
                                      !.code = o.code]
    /\ UNCHANGED aux
    /\ UNCHANGED <<impl, active_trades, threads, nSignals>>

place_order ==
    /\ impl = "main"
    /\ call.pc = "place"
    /\ \E o \in send_request :
         /\ Return(IF o.raised THEN RetResp(-1) ELSE RetResp(o.code))
         /\ ev' = [NoEv EXCEPT !.kind = "order", !.symbol = call.symbol,
                               !.side = call.side, !.amount = call.amount,
                               !.raised = o.raised, !.code = o.code]
    /\ UNCHANGED aux
    /\ UNCHANGED <<impl, active_trades, threads, nSignals>>

Next ==
    \/ \E sig \in Signals : process_trade_signal(sig)
    \/ PTS_price
    \/ PTS_size
    \/ PTS_order
    \/ \E t \in ThreadIds : MTP_tick(t, Prices)
    \/ \E t \in ThreadIds : MTP_del(t)
    \/ \E sig \in Signals : Main_process_trade_signal(sig)
    \/ Main_market
    \/ Main_size
    \/ place_order

Spec == Init /\ [][Next]_vars

(***************************************************************************)
(* The monitoring loop on its own: one position just opened and            *)
(* registered by process_trade_signal, at any entry price and side, its    *)
(* monitor thread polling an exchange that quotes WidePrices.              *)
(***************************************************************************)
MonitorInit ==
    /\ impl = "lib"
    /\ format_handlers = NoFormats
    /\ NoChannel
    /\ arg = None
    /\ ret = None
    /\ call = Idle
    /\ result = RetResp(0)
    /\ nSignals = 1
    /\ \E s \in Symbols, e \in WidePrices \ {0}, sd \in {"buy", "sell"}, bal \in Balances :
         \E amount \in calculate_position_size(NoOut, bal, e) :
           /\ ~InvalidSize(amount)
           /\ active_trades =
                Put(EmptyTrades, s, [entry_price |-> e, side |-> sd, order_id |-> 1])
           /\ threads = <<[symbol |-> s, entry_price |-> e, side |-> sd,
                           pc |-> "poll", response |-> None]>>
           /\ ev = [NoEv EXCEPT !.kind = "order", !.symbol = s, !.side = sd,
                                !.amount = amount]

MonitorNext ==
    \/ \E t \in ThreadIds : MTP_tick(t, WidePrices)
    \/ \E t \in ThreadIds : MTP_del(t)

MonitorSpec == MonitorInit /\ [][MonitorNext]_vars

(* The monitoring loop under fair scheduling.  The thread is a daemon      *)
(* thread that sleeps one second per tick and is never suspended, so it    *)
(* goes on taking the step it is at; what the exchange answers to each of  *)
(* its requests is not scheduled and stays free.  (A tick that repeats the *)
(* exchange of the tick before it leaves the state as it was; fairness     *)
(* asks for the ticks that change it.)                                     *)
MonitorFairSpec ==
    /\ MonitorInit
    /\ [][MonitorNext]_vars
    /\ WF_vars(MTP_tick(1, WidePrices))
    /\ WF_vars(MTP_del(1))

(***************************************************************************)
(* The chat bot of main.py for one user: the user's registered signal      *)
(* formats (format_handlers[user_id]) and the user's exchange client, an   *)
(* instance of the class main.py defines.  The handlers run on one event   *)
(* loop and process_trade_signal never awaits, so a format command runs    *)
(* only while no signal is being processed.  A format's pattern is named   *)
(* by the fragments it fits; "bad" is a template re.compile rejects.       *)
(***************************************************************************)
FormatNames == {"f1", "f2"}
UserPatterns == {"enter", "tp3", "bad"}

(* The example messages a user sends with a format: one per kind of text.  *)
Examples ==
    {s \in Signals : /\ s.symbol = "BTCUSDT" /\ s.side = "LONG"
                     /\ (s.fmt = "junk" \/ s.price = Some(100))}

(* test_pattern = re.compile(pattern); test_pattern.search(example)        *)
(* Variant: the pattern is compiled but not searched for in the example.   *)
PatternFound_CompileOnly(pattern, example) == pattern # "bad"

PatternFound(pattern, example) ==
    pattern # "bad" /\ re_search(pattern, TextOf(example)) # None

(* format_example: the pattern must compile and be found in the example;   *)
(* the row is then inserted and, unless the insert raised, the pattern is  *)
(* put in format_handlers under its name, over any pattern of that name.   *)
format_example(name, pattern, example) ==
    /\ impl = "main"
    /\ call.pc = "idle"
    /\ delivery = None
    /\ \E inserted \in BOOLEAN :
         IF PatternFound(pattern, example) /\ inserted
         THEN /\ signal_formats' = signal_formats \cup {[name |-> name, pattern |-> pattern]}
              /\ format_handlers' = Put(format_handlers, name, pattern)
         ELSE UNCHANGED <<signal_formats, format_handlers>>
    /\ ev' = [NoEv EXCEPT !.kind = "addformat", !.text = Some(example),
                          !.format = Some([name |-> name, pattern |-> pattern])]
    /\ UNCHANGED <<impl, active_trades, threads, call, result, nSignals, arg, ret,
                   trading_enabled, user_bots, inbox, delivery>>

(* delete_format: the rows of that name are deleted and, if there were     *)
(* any, the name is dropped from format_handlers.                          *)
delete_format(name) ==
    /\ impl = "main"
    /\ call.pc = "idle"
    /\ delivery = None
    /\ LET deleted == \E row \in signal_formats : row.name = name IN
         /\ signal_formats' = {row \in signal_formats : row.name # name}
         /\ format_handlers' =
              IF deleted THEN Remove(format_handlers, name) ELSE format_handlers
    /\ ev' = [NoEv EXCEPT !.kind = "delformat"]
    /\ UNCHANGED <<impl, active_trades, threads, call, result, nSignals, arg, ret,
                   trading_enabled, user_bots, inbox, delivery>>

ChatInit ==
    /\ impl = "main"
    /\ active_trades = EmptyTrades
    /\ threads = <<>>
    /\ call = Idle
    /\ result = Pending
    /\ nSignals = 0
    /\ ev = NoEv
    /\ format_handlers = NoFormats
    /\ NoChannel
    /\ arg = None
    /\ ret = None

ChatNext ==
    \/ \E name \in FormatNames, pattern \in UserPatterns, example \in Examples :
         format_example(name, pattern, example)
    \/ \E name \in FormatNames : delete_format(name)
    \/ \E sig \in Signals : Main_process_trade_signal(sig)
    \/ Main_market
    \/ Main_size
    \/ place_order

ChatSpec == ChatInit /\ [][ChatNext]_vars

(***************************************************************************)
(* The channel side of TradingBot (main.py), for several users.  The       *)
(* Application handles one update at a time (concurrent_updates is left at *)
(* its default) and process_trade_signal is a plain blocking call, so      *)
(* while a handle_channel_message run is in progress no other handler      *)
(* starts: posts wait in inbox and commands run between deliveries.  The   *)
(* users' clients are instances of the class main.py defines, which keep   *)
(* no state beyond their credentials.                                      *)
(***************************************************************************)
MaxInbox == 2

Channels == {"c1", "c2"}

(* SELECT user_id FROM monitored_channels WHERE channel_id = ?, in row     *)
(* order.                                                                  *)
Subscribers(c) == IF c = "c1" THEN <<"u1", "u2">> ELSE <<"u2">>

ChannelTexts ==
    {s \in Signals : /\ s.symbol = "BTCUSDT" /\ s.side = "LONG"
                     /\ (s.fmt = "junk" \/ (s.fmt = "enter" /\ s.price = Some(100)))}

Posts == [channel : Channels, text : ChannelTexts]

(* CoinexTradingBot(api_key, api_secret) of a user.                        *)
Client(u) == [api_key |-> u, api_secret |-> u]

(* What bot.process_trade_signal(message) of main.py can return: None, or  *)
(* the response of place_order.                                            *)
MainResults(sig) ==
    IF ParseMain(sig) = None
    THEN {RetNone}
    ELSE {RetNone} \cup {RetResp(c) : c \in Codes}

(* The messages the try block of process_signal sends for a result.        *)
(* Variant: a signal that gave no result is not reported.                  *)
Notices_SilentOnNone(r) ==
    IF r.kind = "resp" /\ r.code = 0 THEN <<"executed">>
    ELSE IF r.kind = "resp" THEN <<"failed">>
    ELSE <<>>

Notices(r) ==
    IF r.kind = "resp" /\ r.code = 0 THEN <<"executed">> ELSE <<"failed">>

(* What the channel steps leave alone.                                     *)
outside == <<impl, active_trades, threads, call, result, nSignals,
             format_handlers, arg, ret, signal_formats>>

channel_post(c, text) ==
    /\ Len(inbox) < MaxInbox
    /\ inbox' = Append(inbox, [channel |-> c, text |-> text])
    /\ ev' = [NoEv EXCEPT !.kind = "post"]
    /\ UNCHANGED <<outside, trading_enabled, user_bots, delivery>>

(* api_secret: the end of the set-up conversation.                         *)
api_secret(u) ==
    /\ delivery = None
    /\ user_bots' = Put(user_bots, u, Client(u))
    /\ trading_enabled' = [trading_enabled EXCEPT ![u] = FALSE]
    /\ ev' = [NoEv EXCEPT !.kind = "setup", !.user = u]
    /\ UNCHANGED <<outside, inbox, delivery>>

start_trading(u) ==
    /\ delivery = None
    /\ trading_enabled' =
         IF u \in DOMAIN user_bots
         THEN [trading_enabled EXCEPT ![u] = TRUE]
         ELSE trading_enabled
    /\ ev' = [NoEv EXCEPT !.kind = "starttrade", !.user = u]
    /\ UNCHANGED <<outside, user_bots, inbox, delivery>>

(* stop_trading: the flag is cleared; nothing else is touched.             *)
stop_trading(u) ==
    /\ delivery = None
    /\ trading_enabled' = [trading_enabled EXCEPT ![u] = FALSE]
    /\ ev' = [NoEv EXCEPT !.kind = "stoptrade", !.user = u]
    /\ UNCHANGED <<outside, user_bots, inbox, delivery>>

(* handle_channel_message: the next post is taken up and the users of its  *)
(* channel are fetched.                                                    *)
handle_channel_message ==
    /\ delivery = None
    /\ inbox # <<>>
    /\ delivery' = [text |-> Head(inbox).text,
                    users |-> Subscribers(Head(inbox).channel),
                    user |-> "-", pc |-> "next", result |-> Pending, sends |-> 0]
    /\ inbox' = Tail(inbox)
    /\ ev' = [NoEv EXCEPT !.kind = "deliver"]
    /\ UNCHANGED <<outside, trading_enabled, user_bots>>

(* if not self.trading_enabled.get(user_id, False): continue, and          *)
(* if not bot: continue.                                                   *)
(* Variant: the trading flag is not looked at.                             *)
PassedOver_ClientOnly(u) == u \notin DOMAIN user_bots

PassedOver(u) == ~trading_enabled[u] \/ u \notin DOMAIN user_bots

(* One turn of its loop: a user whose trading is off, or who has no        *)
(* client, is passed over; for the others process_signal is entered.       *)
HCM_next ==
    /\ delivery # None
    /\ delivery.pc = "next"
    /\ IF delivery.users = <<>>
       THEN /\ delivery' = None
            /\ ev' = [NoEv EXCEPT !.kind = "delivered"]
       ELSE LET u == Head(delivery.users) IN
              IF PassedOver(u)
              THEN /\ delivery' = [delivery EXCEPT !.users = Tail(delivery.users)]
                   /\ ev' = [NoEv EXCEPT !.kind = "skip", !.user = u]
              ELSE /\ delivery' = [delivery EXCEPT !.users = Tail(delivery.users),
                                                   !.user = u, !.pc = "call",
                                                   !.result = Pending, !.sends = 0]
                   /\ ev' = [NoEv EXCEPT !.kind = "call", !.user = u]
    /\ UNCHANGED <<outside, trading_enabled, user_bots, inbox>>

(* process_signal: bot.process_trade_signal(message) returns.              *)
PS_call ==
    /\ delivery # None
    /\ delivery.pc = "call"
    /\ \E r \in MainResults(delivery.text) :
         delivery' = [delivery EXCEPT !.pc = "notify", !.result = r]
    /\ ev' = [NoEv EXCEPT !.kind = "result", !.user = delivery.user]
    /\ UNCHANGED <<outside, trading_enabled, user_bots, inbox>>

(* process_signal, try block: the send_message of the branch taken, which  *)
(* Telegram accepts or which raises.                                       *)
PS_notify ==
    /\ delivery # None
    /\ delivery.pc = "notify"
    /\ \E accepted \in BOOLEAN :
         IF Notices(delivery.result) = <<>> \/ accepted
         THEN LET n == delivery.sends + Len(Notices(delivery.result)) IN
                /\ delivery' = [delivery EXCEPT !.pc = "next", !.sends = n]
                /\ ev' = [NoEv EXCEPT !.kind = "processed", !.user = delivery.user,
                                      !.sends = n]
         ELSE /\ delivery' = [delivery EXCEPT !.pc = "except"]
              /\ ev' = [NoEv EXCEPT !.kind = "refused", !.user = delivery.user]
    /\ UNCHANGED <<outside, trading_enabled, user_bots, inbox>>

(* process_signal, except block: one more send_message; if that raises     *)
(* too the exception leaves process_signal and handle_channel_message.     *)
PS_except ==
    /\ delivery # None
    /\ delivery.pc = "except"
    /\ \E accepted \in BOOLEAN :
         IF accepted
         THEN /\ delivery' = [delivery EXCEPT !.pc = "next",
                                              !.sends = delivery.sends + 1]
              /\ ev' = [NoEv EXCEPT !.kind = "processed", !.user = delivery.user,
                                    !.sends = delivery.sends + 1]
         ELSE /\ delivery' = None
              /\ ev' = [NoEv EXCEPT !.kind = "aborted", !.user = delivery.user,
                                    !.sends = delivery.sends,
                                    !.left = delivery.users]
    /\ UNCHANGED <<outside, trading_enabled, user_bots, inbox>>

ChannelInit ==
    /\ impl = "main"
    /\ active_trades = EmptyTrades
    /\ threads = <<>>
    /\ call = Idle
    /\ result = Pending
    /\ nSignals = 0
    /\ ev = NoEv
    /\ format_handlers = NoFormats
    /\ arg = None
    /\ ret = None
    /\ NoChannel

ChannelNext ==
    \/ \E p \in Posts : channel_post(p.channel, p.text)
    \/ \E u \in Users : api_secret(u)
    \/ \E u \in Users : start_trading(u)
    \/ \E u \in Users : stop_trading(u)
    \/ handle_channel_message
    \/ HCM_next
    \/ PS_call
    \/ PS_notify
    \/ PS_except

ChannelSpec == ChannelInit /\ [][ChannelNext]_vars

(***************************************************************************)
(* Stopping trading while a position is monitored: user u1 of a TradingBot *)
(* whose client is the packaged class, the CoinexTradingBot that main.py   *)
(* imports from coinex_bot (line 16) and whose active_trades its status    *)
(* handler reads (lines 757-762), with one position open and its monitor   *)
(* thread polling.  (The class main.py itself defines starts no monitor.)  *)
(* The monitor is a thread of its own: it runs whatever the handlers do.   *)
(***************************************************************************)
StopInit ==
    /\ impl = "lib"
    /\ call = Idle
    /\ result = RetResp(0)
    /\ nSignals = 1
    /\ format_handlers = NoFormats
    /\ arg = None
    /\ ret = None
    /\ signal_formats = {}
    /\ trading_enabled = [u \in Users |-> u = "u1"]
    /\ user_bots = Put(NoBots, "u1", Client("u1"))
    /\ inbox = <<>>
    /\ delivery = None
    /\ \E s \in Symbols, e \in Prices \ {0}, sd \in {"buy", "sell"}, bal \in Balances :
         \E amount \in calculate_position_size(NoOut, bal, e) :
           /\ ~InvalidSize(amount)
           /\ active_trades =
                Put(EmptyTrades, s, [entry_price |-> e, side |-> sd, order_id |-> 1])
           /\ threads = <<[symbol |-> s, entry_price |-> e, side |-> sd,
                           pc |-> "poll", response |-> None]>>
           /\ ev = [NoEv EXCEPT !.kind = "order", !.symbol = s, !.side = sd,
                                !.amount = amount]

StopNext ==
    \/ \E t \in ThreadIds : MTP_tick(t, Prices)
    \/ \E t \in ThreadIds : MTP_del(t)
    \/ stop_trading("u1")
    \/ start_trading("u1")

StopSpec == StopInit /\ [][StopNext]_vars

(***************************************************************************)
(* calculate_position_size on its own (the same code in both classes):     *)
(* any outcome of the balance lookup, any available balance, any price.    *)
(***************************************************************************)
SizeBalances == Balances \cup {100000}
SizePrices == WidePrices \cup {-100, 10}

SizeInit ==
    /\ impl \in {"lib", "main"}
    /\ active_trades = EmptyTrades
    /\ threads = <<>>
    /\ call = Idle
    /\ result = Pending
    /\ nSignals = 0
    /\ ev = NoEv
    /\ format_handlers = NoFormats
    /\ NoChannel
    /\ arg \in [o : send_request, bal : SizeBalances, price : SizePrices]
    /\ ret = None

size_position ==
    /\ ret = None
    /\ IF CalcRaises(arg.o, arg.price)
       THEN ret' = Some([raised |-> TRUE, amount |-> 0])
       ELSE \E a \in calculate_position_size(arg.o, arg.bal, arg.price) :
              ret' = Some([raised |-> FALSE, amount |-> a])
    /\ UNCHANGED <<impl, active_trades, threads, call, result, nSignals, ev,
                   format_handlers, arg, tg>>

SizeNext == size_position

SizeSpec == SizeInit /\ [][SizeNext]_vars

(***************************************************************************)
(* send_request in detail (the same code in both classes): one call, given *)
(* what the dispatch meets.  transport says whether requests.get/post      *)
(* returned a response or raised a RequestException; of a response, status *)
(* is the HTTP status, remaining the X-RateLimit-Remaining header (absent, *)
(* empty, a text int() accepts, or one it rejects) and body the payload: a *)
(* JSON object with a code, a JSON array, or not JSON.                     *)
(***************************************************************************)
HttpStatuses == {200, 429, 500}
RemainingValues == {-1, 0, 5}
BodyCodes == {0, 3008, 3109, 4001, 4213}

RemainingHeaders ==
    [kind : {"absent", "empty", "text"}, n : {0}]
    \cup [kind : {"int"}, n : RemainingValues]

Bodies ==
    [kind : {"json"}, code : BodyCodes]
    \cup [kind : {"array", "notjson"}, code : {0}]

Responses ==
    [transport : {"ok", "fail"}, status : HttpStatuses,
     remaining : RemainingHeaders, body : Bodies]

(* handle_rate_limits: "limited" when it raises RateLimitError, "raised"   *)
(* when int(remaining) raises ValueError, "ok" when it returns.  The       *)
(* status is tested first; an absent or empty header is falsy.             *)
(* Variant: the header is not looked at.                                   *)
handle_rate_limits_StatusOnly(r) ==
    IF r.status = 429 THEN "limited" ELSE "ok"

handle_rate_limits(r) ==
    IF r.status = 429 THEN "limited"
    ELSE IF r.remaining.kind \in {"absent", "empty"} THEN "ok"
    ELSE IF r.remaining.kind = "text" THEN "raised"
    ELSE IF r.remaining.n <= 0 THEN "limited"
    ELSE "ok"

(* if json_response.get('code') in [3008, 4001, 4213]: time.sleep(1)       *)
(* Variant: 4001 is not in the list.                                       *)
SoftThrottle_Partial(code) == code \in {3008, 4213}

SoftThrottle(code) == code \in {3008, 4001, 4213}

(* What a send_request call did and produced: whether an exception left    *)
(* it, the code of the result it returned, whether that result is one      *)
(* send_request made up (made) or the decoded body, the HTTP requests      *)
(* dispatched, the time.sleep(1) pauses taken, whether response.json() was *)
(* reached and returned.                                                   *)
Outcome(raised, code, made, sleeps, decoded) ==
    [raised |-> raised, code |-> code, made |-> made, dispatches |-> 1,
     sleeps |-> sleeps, decoded |-> decoded]

(* send_request, lines 100-143.  response.json() on a body that is not     *)
(* JSON raises a JSONDecodeError, which is a RequestException in some      *)
(* versions of requests and a plain ValueError in others: both outcomes.   *)
(* A JSON array has no .get (AttributeError).                              *)
SendRequest(r) ==
    IF r.transport = "fail" THEN {Outcome(FALSE, -1, TRUE, 0, FALSE)}
    ELSE IF handle_rate_limits(r) = "limited"
    THEN {Outcome(FALSE, 4213, TRUE, 0, FALSE)}
    ELSE IF handle_rate_limits(r) = "raised"
    THEN {Outcome(TRUE, 0, FALSE, 0, FALSE)}
    ELSE IF r.status >= 400 THEN {Outcome(FALSE, -1, TRUE, 0, FALSE)}
    ELSE IF r.body.kind = "notjson"
    THEN {Outcome(FALSE, -1, TRUE, 0, FALSE), Outcome(TRUE, 0, FALSE, 0, FALSE)}
    ELSE IF r.body.kind = "array" THEN {Outcome(TRUE, 0, FALSE, 0, TRUE)}
    ELSE {Outcome(FALSE, r.body.code, FALSE,
                  IF SoftThrottle(r.body.code) THEN 1 ELSE 0, TRUE)}

RequestInit ==
    /\ impl \in {"lib", "main"}
    /\ active_trades = EmptyTrades
    /\ threads = <<>>
    /\ call = Idle
    /\ result = Pending
    /\ nSignals = 0
    /\ ev = NoEv
    /\ format_handlers = NoFormats
    /\ NoChannel
    /\ arg \in Responses
    /\ ret = None

send_request_call ==
    /\ ret = None
    /\ \E out \in SendRequest(arg) : ret' = Some(out)
    /\ UNCHANGED <<impl, active_trades, threads, call, result, nSignals, ev,
                   format_handlers, arg, tg>>

RequestNext == send_request_call

RequestSpec == RequestInit /\ [][RequestNext]_vars

(***************************************************************************)
(* create_signature and the headers of send_request (the same code in both *)
(* classes).  A text is a sequence of pieces and + is concatenation; a     *)
(* params dict is the list of its items in insertion order, with distinct  *)
(* keys.  The clock is the list of values successive time.time() reads     *)
(* would give.  HMAC-SHA256 is taken to be free of collisions: a signature *)
(* is the pair of the key and the text signed.                             *)
(***************************************************************************)
MaxParams == 2

Methods == {"GET", "get", "POST", "post"}
Endpoints == {"/v2/market/detail", "/v2/spot/order"}
ParamKeys == <<"amount", "market", "side">>
ParamValues == {"BTCUSDT", "buy"}
Timestamps == <<"1700000000000", "1700000000001">>
Secrets == {"secret-a", "secret-b"}

(* The place of a key in the order of sorted().                            *)
KeyRank(k) == CHOOSE i \in 1 .. Len(ParamKeys) : ParamKeys[i] = k

ParamLists ==
    {ps \in UNION {[1 .. n -> [k : {ParamKeys[i] : i \in 1 .. Len(ParamKeys)},
                                v : ParamValues]] : n \in 0 .. MaxParams} :
       \A i, j \in 1 .. Len(ps) : ps[i].k = ps[j].k => i = j}

Clocks ==
    {<<Timestamps[i], Timestamps[j]>> : i, j \in 1 .. Len(Timestamps)} \
    {<<Timestamps[2], Timestamps[1]>>}

Requests ==
    [method : Methods, endpoint : Endpoints, params : ParamLists,
     api_secret : Secrets, clock : Clocks]

(* method.upper()                                                          *)
(* Variant: every method reads as GET.                                     *)
upper_AlwaysGet(m) == "GET"

upper(m) == IF m \in {"GET", "get"} THEN "GET" ELSE "POST"

(* sorted(params.items()): the items in the order of their keys.           *)
(* Variant: the items are left in insertion order.                         *)
sorted_Unsorted(ps) == ps

sorted(ps) ==
    LET n == Len(ps)
        place(i) == 1 + Cardinality({j \in 1 .. n : KeyRank(ps[j].k) < KeyRank(ps[i].k)})
    IN  [p \in 1 .. n |-> ps[CHOOSE i \in 1 .. n : place(i) = p]]

(* '&'.join([f"{k}={v}" for k, v in sorted_params])                        *)
RECURSIVE join_pairs(_)
join_pairs(ps) ==
    IF ps = <<>> THEN <<>>
    ELSE <<ps[1].k, "=", ps[1].v>>
         \o (IF Len(ps) = 1 THEN <<>> ELSE <<"&">> \o join_pairs(Tail(ps)))

(* json.dumps(params): the items in insertion order.                       *)
RECURSIVE json_items(_)
json_items(ps) ==
    IF ps = <<>> THEN <<>>
    ELSE <<"\"", ps[1].k, "\": \"", ps[1].v, "\"">>
         \o (IF Len(ps) = 1 THEN <<>> ELSE <<", ">> \o json_items(Tail(ps)))

json_dumps(ps) == <<"{">> \o json_items(ps) \o <<"}">>

(* create_signature, lines 44-79: the timestamp is read once.              *)
create_signature(secret, method, endpoint, params, clock) ==
    LET timestamp == clock[1]
        request_path ==
            IF upper(method) = "GET" /\ params # <<>>
            THEN <<endpoint, "?">> \o join_pairs(sorted(params))
            ELSE <<endpoint>>
        body ==
            IF upper(method) = "POST" /\ params # <<>>
            THEN json_dumps(params)
            ELSE <<>>
        to_sign == <<upper(method)>> \o request_path \o body \o <<timestamp>>
    IN  [to_sign |-> to_sign,
         signature |-> [key |-> secret, msg |-> to_sign],
         timestamp |-> timestamp]

(* headers['X-COINEX-TIMESTAMP'] of send_request: the timestamp            *)
(* create_signature returned.                                              *)
(* Variant: the clock is read again for the header.                        *)
HeaderTimestamp_Reread(timestamp, clock) == clock[2]

HeaderTimestamp(timestamp, clock) == timestamp

(* What send_request puts on the wire for a request, with the text signed. *)
Signed(r) ==
    LET s == create_signature(r.api_secret, r.method, r.endpoint, r.params, r.clock)
    IN  [to_sign |-> s.to_sign,
         sign_header |-> s.signature,
         timestamp_header |-> HeaderTimestamp(s.timestamp, r.clock)]

SignInit ==
    /\ impl \in {"lib", "main"}
    /\ active_trades = EmptyTrades
    /\ threads = <<>>
    /\ call = Idle
    /\ result = Pending
    /\ nSignals = 0
    /\ ev = NoEv
    /\ format_handlers = NoFormats
    /\ NoChannel
    /\ arg \in Requests
    /\ ret = None

sign_request ==
    /\ ret = None
    /\ ret' = Some(Signed(arg))
    /\ UNCHANGED <<impl, active_trades, threads, call, result, nSignals, ev,
                   format_handlers, arg, tg>>

SignNext == sign_request

SignSpec == SignInit /\ [][SignNext]_vars

(***************************************************************************)
(* Two requests signed with the same secret, the second got from the first *)
(* by changing one thing: the method, the endpoint, the value of one       *)
(* parameter, or the time it is made at.                                   *)
(***************************************************************************)
OneChange(a) ==
    {[a EXCEPT !.method = m] : m \in Methods \ {a.method}}
    \cup {[a EXCEPT !.endpoint = e] : e \in Endpoints \ {a.endpoint}}
    \cup ({[a EXCEPT !.params[i].v = v] :
             i \in 1 .. Len(a.params), v \in ParamValues} \ {a})
    \cup {[a EXCEPT !.clock = c] : c \in {d \in Clocks : d[1] # a.clock[1]}}

PairInit ==
    /\ impl \in {"lib", "main"}
    /\ active_trades = EmptyTrades
    /\ threads = <<>>
    /\ call = Idle
    /\ result = Pending
    /\ nSignals = 0
    /\ ev = NoEv
    /\ format_handlers = NoFormats
    /\ NoChannel
    /\ \E a \in Requests : \E b \in OneChange(a) : arg = <<a, b>>
    /\ ret = None

sign_both ==
    /\ ret = None
    /\ ret' = Some(<<Signed(arg[1]), Signed(arg[2])>>)
    /\ UNCHANGED <<impl, active_trades, threads, call, result, nSignals, ev,
                   format_handlers, arg, tg>>

PairNext == sign_both

PairSpec == PairInit /\ [][PairNext]_vars

(***************************************************************************)
(* The parse on its own: the text-to-values part of process_trade_signal   *)
(* (of either class) applied to any text of up to MaxFragments fragments.  *)
(***************************************************************************)
ParseInit ==
    /\ impl \in {"lib", "main"}
    /\ active_trades = EmptyTrades
    /\ threads = <<>>
    /\ call = Idle
    /\ result = Pending
    /\ nSignals = 0
    /\ ev = NoEv
    /\ format_handlers = NoFormats
    /\ NoChannel
    /\ arg \in Texts
    /\ ret = None

parse_text ==
    /\ ret = None
    /\ ret' = Some(IF impl = "lib" THEN ParseLibText(arg) ELSE ParseMainText(arg))
    /\ UNCHANGED <<impl, active_trades, threads, call, result, nSignals, ev,
                   format_handlers, arg, tg>>

ParseNext == parse_text

ParseSpec == ParseInit /\ [][ParseNext]_vars

(***************************************************************************)
(* Claims                                                                  *)
(***************************************************************************)

(* The profit target of the claims, in percent, written out: the formulas  *)
(* below do not go through TakeProfitReached.                              *)
ReachedTarget(opened, entry, price) ==
    IF opened = "buy"
    THEN 100 * (price - entry) >= 15 * entry
    ELSE 100 * (entry - price) >= 15 * entry

MonitorsOf(s) == {t \in ThreadIds : Running(t) /\ threads[t].symbol = s}

(* C1: a signal for a symbol that already has a registered position is     *)
(* rejected: no opening order is ever sent for a symbol that is in         *)
(* active_trades at that moment.                                           *)
C1_DuplicateRejected ==
    ev.kind = "order" => ~ev.dup

(* C2: for each symbol at most one monitor thread is running, and every    *)
(* entry of active_trades has exactly one running monitor thread.          *)
C2_OneMonitorPerKey ==
    \A s \in Symbols :
        /\ Cardinality(MonitorsOf(s)) <= 1
        /\ s \in DOMAIN active_trades => Cardinality(MonitorsOf(s)) = 1

(* C3: after a closing order that came back with a code other than 0 the   *)
(* monitor is back at the top of its loop, and a monitor has returned only *)
(* after a closing order acknowledged with code 0.                         *)
C3_RejectedCloseKeepsMonitoring ==
    /\ (ev.kind = "close" /\ ~ev.raised /\ ev.code # 0)
           => threads[ev.t].pc = "poll"
    /\ (ev.kind \in {"close", "del"} /\ threads[ev.t].pc = "done")
           => (~ev.raised /\ ev.code = 0)

(* C4: a tick sends the closing order if and only if the price lookup      *)
(* succeeded and the profit fraction against the entry price is at least   *)
(* 15%; for a long position entered at 100 that is a price of 115 or more. *)
C4_CloseIffTarget ==
    ev.kind \in {"poll", "close"} =>
        /\ (ev.side # "-") <=>
               (ev.price # None /\ ReachedTarget(ev.opened, ev.entry, ev.price[1]))
        /\ (ev.opened = "buy" /\ ev.entry = 100 /\ ev.price # None)
               => ((ev.kind = "close") <=> (ev.price[1] >= 115))

C4_Witness ==
    /\ ev.kind = "close"
    /\ ev.opened = "buy"
    /\ ev.entry = 100
    /\ ev.price = Some(115)

(* C5: the closing order of a position opened with buy is a sell sent when *)
(* (price - entry) / entry reached the target, and that of a position      *)
(* opened with sell is a buy sent when (entry - price) / entry reached it. *)
C5_DirectionAwareClose ==
    ev.kind = "close" =>
        /\ ev.opened = "buy" =>
               (ev.side = "sell" /\ 100 * (ev.price[1] - ev.entry) >= 15 * ev.entry)
        /\ ev.opened = "sell" =>
               (ev.side = "buy" /\ 100 * (ev.entry - ev.price[1]) >= 15 * ev.entry)

C5_Witness ==
    /\ ev.kind = "close"
    /\ ev.opened = "sell"
    /\ ev.side = "buy"
    /\ ev.entry = 100
    /\ ev.price = Some(85)

(* C6: once its closing order is acknowledged with code 0 a monitor goes   *)
(* on to delete the entry and return: after its delete step the symbol is  *)
(* no longer registered and the thread is done, so it makes no further     *)
(* request.                                                                *)
C6_AckedCloseStops ==
    (ev.kind \in {"close", "del"} /\ ~ev.raised /\ ev.code = 0) =>
        /\ threads[ev.t].pc \in {"del", "done"}
        /\ ev.kind = "del" =>
               (threads[ev.t].pc = "done" /\ ev.symbol \notin DOMAIN active_trades)

(* C7: a tick whose price lookup failed leaves active_trades and the       *)
(* thread as they were, with the thread at the top of its loop.            *)
C7_FailedLookupRetries ==
    [][\A t \in ThreadIds :
          (ev'.kind = "poll" /\ ev'.t = t /\ ev'.price = None) =>
              /\ active_trades' = active_trades
              /\ threads' = threads
              /\ threads'[t].pc = "poll"]_vars

C7_Witness ==
    /\ ev.kind = "poll"
    /\ ev.price = None
    /\ threads[ev.t].pc = "poll"
    /\ ev.symbol \in DOMAIN active_trades

(* C8: when an opening order came back with code 0 and the call returned   *)
(* it, the symbol is registered with the order's entry price, side and id  *)
(* and a monitor thread for it is running.                                 *)
C8_ExecutedIsMonitored ==
    (ev.kind = "order" /\ result = RetResp(0)) =>
        /\ ev.symbol \in DOMAIN active_trades
        /\ active_trades[ev.symbol].side = ev.side
        /\ \E t \in MonitorsOf(ev.symbol) :
              /\ active_trades[ev.symbol].order_id = t
              /\ active_trades[ev.symbol].entry_price = threads[t].entry_price

(* C9: an opening order that came back with a code other than 0 makes the  *)
(* call return that response, with active_trades and the threads as they   *)
(* were.                                                                   *)
C9_RejectedOrderReturned ==
    [][(call.pc \in {"order", "place"} /\ ev'.kind = "order"
            /\ ~ev'.raised /\ ev'.code # 0) =>
          /\ result' = RetResp(ev'.code)
          /\ call'.pc = "idle"
          /\ active_trades' = active_trades
          /\ threads' = threads]_vars

C9_Witness ==
    /\ impl = "lib"
    /\ ev.kind = "order"
    /\ ~ev.raised
    /\ ev.code = 4213
    /\ result = RetResp(4213)
    /\ call.pc = "idle"

(* C10: every opening order carries an amount of at least one unit of      *)
(* 0.0001, which is above the dust threshold of 0.00001; a sizing step     *)
(* that yields zero or less ends the call with None and leaves             *)
(* active_trades and the threads as they were.                             *)
C10_NoDustOrder ==
    [][/\ ev'.kind = "order" => 10 * ev'.amount >= 1
       /\ (call.pc \in {"size", "msize"} /\ ev'.kind = "size" /\ ev'.amount <= 0) =>
             /\ result' = RetNone
             /\ call'.pc = "idle"
             /\ active_trades' = active_trades
             /\ threads' = threads]_vars

C10_Witness ==
    /\ ev.kind = "size"
    /\ ~ev.raised
    /\ ev.amount = 0
    /\ result = RetNone
    /\ call.pc = "idle"

(* Whether a signal text holds a fragment of a pattern the class looks     *)
(* for: both patterns in trading_bot.py, the first only in main.py.        *)
PatternsOf(cls) == IF cls = "lib" THEN {"enter", "tp3"} ELSE {"enter"}

(* C11: when no pattern matches the text, process_trade_signal returns     *)
(* None without raising, sends no request to the exchange (the call is     *)
(* over with the step that parsed the text) and leaves active_trades and   *)
(* the monitor threads as they were.                                       *)
C11_NoMatchNoRequest ==
    [][(ev'.kind = "submit" /\ ev'.text[1].fmt \notin PatternsOf(impl))
        => /\ result' = RetNone
           /\ call'.pc = "idle"
           /\ ev'.side = "-" /\ ev'.price = None /\ ~ev'.raised
           /\ active_trades' = active_trades
           /\ threads' = threads]_vars

C11_Witness ==
    /\ ev.kind = "submit"
    /\ ev.text[1].fmt \notin PatternsOf(impl)
    /\ result = RetNone
    /\ nSignals = MaxSignals

HasFragment(text, fmt) == \E i \in 1 .. Len(text) : text[i].fmt = fmt

(* The leftmost fragment of the first pattern in a text that has one.      *)
FirstEnter(text) ==
    text[CHOOSE i \in 1 .. Len(text) :
           /\ text[i].fmt = "enter"
           /\ \A j \in 1 .. (i - 1) : text[j].fmt # "enter"]

(* C12: the patterns are tried in a fixed order and the first match wins:  *)
(* for a text that holds a fragment of the first pattern and a fragment of *)
(* the second, the side, symbol, price and leverage extracted are those of *)
(* the first pattern's fragment, wherever it stands in the text (and       *)
(* nothing is extracted when that fragment's price text is not a number).  *)
C12_FirstPatternWins ==
    (ret # None /\ HasFragment(arg, "enter") /\ HasFragment(arg, "tp3"))
    => LET f == FirstEnter(arg) IN
         IF f.price = None
         THEN ret[1] = None
         ELSE ret[1] = Some([symbol |-> f.symbol,
                             side |-> IF f.side = "LONG" THEN "buy" ELSE "sell",
                             price |-> f.price[1], lev |-> f.lev])

C12_Witness ==
    /\ impl = "lib"
    /\ Len(arg) = 2
    /\ arg[1].fmt = "tp3" /\ arg[1].side = "SHORT" /\ arg[1].symbol = "ETHUSDT"
    /\ arg[1].price = Some(0)
    /\ arg[2].fmt = "enter" /\ arg[2].side = "LONG" /\ arg[2].symbol = "BTCUSDT"
    /\ arg[2].price = Some(100)
    /\ ret # None
    /\ ret[1] # None
    /\ ret[1][1].side = "buy" /\ ret[1][1].lev = arg[2].lev

(* C13: the patterns a user's inbound signal is parsed with are that       *)
(* user's registered formats: a text (with a numeric price) is taken as a  *)
(* signal exactly when it fits a format the user has added and not         *)
(* deleted.                                                                *)
C13_RegisteredFormatsParse ==
    (ev.kind = "submit" /\ ev.text[1].price # None)
    => ((\E n \in DOMAIN format_handlers : ev.text[1].fmt = format_handlers[n])
        <=> call.pc # "idle")

(* C14: the side of every opening order is fixed by the side the signal    *)
(* names, in both patterns: LONG gives "buy" and SHORT gives "sell".  The  *)
(* call takes its side from the text when it parses it, keeps it through   *)
(* its steps, and the opening order carries it.                            *)
C14_SideFixedBySignal ==
    [][/\ (ev'.kind = "submit" /\ call'.pc # "idle")
          => call'.side = IF ev'.text[1].side = "LONG" THEN "buy" ELSE "sell"
       /\ (call.pc # "idle" /\ call'.pc # "idle") => call'.side = call.side
       /\ ev'.kind = "order" => ev'.side = call.side]_vars

C14_Witness ==
    /\ impl = "lib"
    /\ ev.kind = "submit"
    /\ ev.text[1].fmt = "tp3"
    /\ ev.text[1].side = "SHORT"
    /\ call.pc = "price"
    /\ call.side = "sell"

(* C15: a signal whose captured price is zero or negative is rejected by   *)
(* the parser (the call ends with None in the step that parsed the text),  *)
(* so a call that has gone on to a lookup or an order carries a positive   *)
(* signal price (main.py keeps the signal price in the call).              *)
C15_NonPositivePriceRejected ==
    /\ (ev.kind = "submit" /\ ev.text[1].price # None /\ ev.text[1].price[1] <= 0)
       => (call.pc = "idle" /\ result = RetNone)
    /\ (impl = "main" /\ call.pc \in {"msize", "place"}) => call.price > 0

(* A sizing call whose balance lookup succeeded, at a positive price.      *)
SizedAtPositivePrice ==
    ret # None /\ ~arg.o.raised /\ arg.o.code = 0 /\ arg.price > 0

(* C16 as stated: for every balance and positive price the size is         *)
(* balance * 0.05 / price floored to 4 decimals: the largest multiple of   *)
(* 0.0001 not above it.  (bal is in cents and amount in units of 0.0001,   *)
(* so balance * 0.05 / price is bal * 5 / price units.)                    *)
C16_FlooredSize ==
    SizedAtPositivePrice
    => /\ ~ret[1].raised
       /\ ret[1].amount * arg.price <= arg.bal * 5
       /\ (ret[1].amount + 1) * arg.price > arg.bal * 5

(* C16 as amended: the size is balance * 0.05 / price rounded to 4         *)
(* decimals: a multiple of 0.0001 nearest to it, at most half a unit away  *)
(* on either side, so it can exceed 5% of the balance by up to half a      *)
(* unit's worth.                                                           *)
C16_RoundedSize ==
    SizedAtPositivePrice
    => /\ ~ret[1].raised
       /\ 2 * (ret[1].amount * arg.price - arg.bal * 5) <= arg.price
       /\ 2 * (arg.bal * 5 - ret[1].amount * arg.price) <= arg.price

C16_Witness ==
    /\ SizedAtPositivePrice
    /\ arg.bal = 2000
    /\ arg.price = 115
    /\ ret[1].amount * arg.price > arg.bal * 5

(* C17: calculate_position_size returns a zero quantity, as a value and    *)
(* not by raising, whenever the balance lookup failed (non-zero code) or   *)
(* the price is zero or negative.                                          *)
C17_ZeroNotRaised ==
    (ret # None /\ ~arg.o.raised /\ (arg.o.code # 0 \/ arg.price <= 0))
    => (~ret[1].raised /\ ret[1].amount = 0)

(* C18: on HTTP 429, or on a remaining-requests header that is a number    *)
(* not above zero, send_request fails fast: one HTTP request dispatched,   *)
(* no pause, the body not decoded, and a rate-limit failure result (code   *)
(* 4213, made by send_request) returned.                                   *)
C18_RateLimitFailsFast ==
    (/\ ret # None
     /\ arg.transport = "ok"
     /\ \/ arg.status = 429
        \/ (arg.remaining.kind = "int" /\ arg.remaining.n <= 0))
    => /\ ~ret[1].raised
       /\ ret[1].code = 4213 /\ ret[1].made
       /\ ret[1].dispatches = 1
       /\ ret[1].sleeps = 0
       /\ ~ret[1].decoded

C18_Witness ==
    /\ ret # None
    /\ arg.transport = "ok"
    /\ arg.status = 200
    /\ arg.remaining.kind = "int" /\ arg.remaining.n = 0
    /\ arg.body.kind = "json" /\ arg.body.code = 0
    /\ ret[1].code = 4213

(* C19: one send_request call pauses at most once: exactly once when the   *)
(* response it decoded carries code 3008, 4001 or 4213, not at all         *)
(* otherwise; either way the decoded response is what it returns, after a  *)
(* single HTTP dispatch.                                                   *)
C19_OnePauseOnSoftThrottle ==
    ret # None
    => /\ ret[1].dispatches = 1
       /\ ret[1].sleeps =
            IF /\ ret[1].decoded
               /\ arg.body.kind = "json"
               /\ arg.body.code \in {3008, 4001, 4213}
            THEN 1 ELSE 0
       /\ (ret[1].decoded /\ arg.body.kind = "json")
          => (~ret[1].raised /\ ~ret[1].made /\ ret[1].code = arg.body.code)

C19_Witness ==
    /\ ret # None
    /\ ret[1].decoded
    /\ arg.body.kind = "json" /\ arg.body.code = 4001
    /\ ret[1].sleeps = 1
    /\ ret[1].code = 4001

(* C20: send_request never lets an exception out: whatever the dispatch    *)
(* meets, it returns a result with a numeric code, -1 for a transport      *)
(* failure.                                                                *)
C20_NeverRaises ==
    ret # None
    => /\ ~ret[1].raised
       /\ arg.transport = "fail" => ret[1].code = -1

(* C21: the timestamp in the X-COINEX-TIMESTAMP header of a request is the *)
(* very value that ends the text that was signed, and it is the one read   *)
(* of the clock the request makes.                                         *)
C21_OneTimestamp ==
    ret # None
    => /\ ret[1].timestamp_header = ret[1].to_sign[Len(ret[1].to_sign)]
       /\ ret[1].timestamp_header = arg.clock[1]

C21_Witness ==
    /\ ret # None
    /\ arg.clock[1] # arg.clock[2]
    /\ ret[1].timestamp_header = arg.clock[1]

(* The query of a set of items: the k=v pairs taken key by key in the      *)
(* order of the keys, joined with &.                                       *)
RECURSIVE QueryInKeyOrder(_, _)
QueryInKeyOrder(items, i) ==
    IF i > Len(ParamKeys) THEN <<>>
    ELSE LET here == {p \in items : p.k = ParamKeys[i]}
             rest == QueryInKeyOrder(items, i + 1)
         IN  IF here = {} THEN rest
             ELSE LET p == CHOOSE q \in here : TRUE
                  IN  <<p.k, "=", p.v>>
                      \o (IF rest = <<>> THEN <<>> ELSE <<"&">> \o rest)

(* The JSON text of a parameter object, item i onwards.                    *)
RECURSIVE ObjectText(_, _)
ObjectText(ps, i) ==
    IF i > Len(ps) THEN <<"}">>
    ELSE (IF i = 1 THEN <<"{">> ELSE <<", ">>)
         \o <<"\"", ps[i].k, "\": \"", ps[i].v, "\"">>
         \o ObjectText(ps, i + 1)

(* C22: the text signed is uppercase(method) + path + suffix + timestamp   *)
(* with nothing in between: for a GET with parameters the suffix is ? and  *)
(* the k=v pairs sorted by key and joined with & (a function of the set of *)
(* items, not of the order they were supplied in), for a POST with         *)
(* parameters it is the JSON text of the parameter object, and with no     *)
(* parameters it is empty.                                                 *)
C22_StringToSign ==
    ret # None
    => LET m == IF arg.method \in {"GET", "get"} THEN "GET" ELSE "POST"
           items == {arg.params[i] : i \in 1 .. Len(arg.params)}
           suffix ==
               IF arg.params = <<>> THEN <<>>
               ELSE IF m = "GET" THEN <<"?">> \o QueryInKeyOrder(items, 1)
               ELSE ObjectText(arg.params, 1)
       IN  ret[1].to_sign = <<m, arg.endpoint>> \o suffix \o <<arg.clock[1]>>

C22_Witness ==
    /\ ret # None
    /\ arg.method = "get"
    /\ Len(arg.params) = 2
    /\ arg.params[1].k = "side"
    /\ arg.params[2].k = "amount"
    /\ ret[1].to_sign[4] = "amount"

(* The HTTP method a request is made with: what it is dispatched and       *)
(* signed as, whatever the letter case it was named in.                    *)
HttpMethod(r) == IF r.method \in {"GET", "get"} THEN "GET" ELSE "POST"

(* Two requests under one secret that differ in exactly one of method,     *)
(* path, the value of a single parameter, or timestamp.                    *)
DifferInOneField(a, b) ==
    /\ a.api_secret = b.api_secret
    /\ Len(a.params) = Len(b.params)
    /\ \A i \in 1 .. Len(a.params) : a.params[i].k = b.params[i].k
    /\ LET changed == {i \in 1 .. Len(a.params) : a.params[i].v # b.params[i].v}
           n == (IF HttpMethod(a) # HttpMethod(b) THEN 1 ELSE 0)
                + (IF a.endpoint # b.endpoint THEN 1 ELSE 0)
                + Cardinality(changed)
                + (IF a.clock[1] # b.clock[1] THEN 1 ELSE 0)
       IN  n = 1

(* C23: sensitivity law: two requests signed with the same secret that     *)
(* differ in exactly one of method, path, a single parameter value or      *)
(* timestamp have different signed texts and different signatures.         *)
C23_Sensitivity ==
    (ret # None /\ DifferInOneField(arg[1], arg[2]))
    => /\ ret[1][1].to_sign # ret[1][2].to_sign
       /\ ret[1][1].sign_header # ret[1][2].sign_header

C23_Witness ==
    /\ ret # None
    /\ DifferInOneField(arg[1], arg[2])
    /\ HttpMethod(arg[1]) = "POST"
    /\ Len(arg[1].params) = 2
    /\ arg[1].params[2].v # arg[2].params[2].v
    /\ ret[1][1].sign_header # ret[1][2].sign_header

(* C28: a signal format is stored, in the database and in the runtime      *)
(* handler map, only if its pattern compiles and matches the example the   *)
(* user supplied; when it does not, nothing is stored and the formats the  *)
(* user has are unchanged.                                                 *)
C28_StoredOnlyIfValidated ==
    [][ev'.kind = "addformat"
       => LET f == ev'.format[1]
              valid == f.pattern # "bad" /\ ev'.text[1].fmt = f.pattern
          IN  IF valid
              THEN \/ UNCHANGED <<signal_formats, format_handlers>>
                   \/ /\ signal_formats' = signal_formats \cup {f}
                      /\ f.name \in DOMAIN format_handlers'
                      /\ format_handlers'[f.name] = f.pattern
              ELSE UNCHANGED <<signal_formats, format_handlers>>]_vars

C28_Witness ==
    /\ ev.kind = "addformat"
    /\ ev.format[1].pattern = "tp3"
    /\ ev.text[1].fmt = "enter"
    /\ ev.format[1].name = "f1"
    /\ DOMAIN format_handlers = {"f2"}
    /\ Cardinality(signal_formats) = 1

(* C29: a stored format is immutable except by delete: adding a format     *)
(* never changes the pattern held under a name that is already stored.     *)
C29_ImmutableUntilDeleted ==
    [][ev'.kind = "addformat"
       => \A n \in DOMAIN format_handlers :
            n \in DOMAIN format_handlers' /\ format_handlers'[n] = format_handlers[n]]_vars

Eligible(u) == trading_enabled[u] /\ u \in DOMAIN user_bots

(* C25: users are isolated: a step taken for one user changes no other     *)
(* user's trading flag or client, and a failure while a channel post is    *)
(* processed for one user does not keep it from being processed for the    *)
(* other users of the channel.                                             *)
C25_UsersIsolated ==
    [][/\ ev'.kind \in {"skip", "call", "result", "refused", "processed", "aborted"}
          => \A v \in Users \ {ev'.user} :
               /\ trading_enabled'[v] = trading_enabled[v]
               /\ v \in DOMAIN user_bots
                  => (v \in DOMAIN user_bots' /\ user_bots'[v] = user_bots[v])
       /\ ev'.kind = "aborted"
          => \A i \in 1 .. Len(ev'.left) : ~Eligible(ev'.left[i])]_vars

(* C26: signal processing does not block the inbound channel: while the    *)
(* processing of one user's message waits on an exchange call, a post      *)
(* waiting for a different user can start being processed.                 *)
C26_NonBlocking ==
    (/\ delivery # None
     /\ delivery.pc = "call"
     /\ inbox # <<>>
     /\ \E i \in 1 .. Len(Subscribers(Head(inbox).channel)) :
          LET v == Subscribers(Head(inbox).channel)[i]
          IN  v # delivery.user /\ Eligible(v))
    => ENABLED handle_channel_message

C30_MonitorOwnsEntry ==
    [][/\ \A t \in 1 .. Len(threads') :
            threads'[t].pc # "done"
            => /\ threads'[t].symbol \in DOMAIN active_trades'
               /\ active_trades'[threads'[t].symbol].order_id = t
       /\ (/\ ev'.kind = "del"
           /\ ev'.symbol \in DOMAIN active_trades
           /\ ev'.symbol \notin DOMAIN active_trades')
          => active_trades[ev'.symbol].order_id = ev'.t]_vars

(* From some point on every price lookup of thread t succeeds and returns  *)
(* a price whose profit fraction is at least 15%.                          *)
GoodLookups(t) ==
    (ev.t = t /\ ev.kind \in {"poll", "close"}) =>
        (ev.price # None /\ ReachedTarget(ev.opened, ev.entry, ev.price[1]))

(* Thread t has returned, after a step on its closing order.               *)
ClosedAndReturned(t) ==
    /\ threads[t].pc = "done"
    /\ ev.t = t
    /\ ev.kind \in {"close", "del"}

(* C31: if from some point on every price lookup of the monitor succeeds   *)
(* with a price at or beyond the target, then under fair scheduling the    *)
(* monitor eventually sends a closing order and returns.                   *)
C31_EventuallyClosesAndReturns ==
    <>[]GoodLookups(1) => <>ClosedAndReturned(1)

(* A lookup that returned code 0.                                          *)
LookupOk(e) == ~e.raised /\ e.code = 0

(* C32: the steps of one process_trade_signal call of trading_bot.py run   *)
(* in order and short-circuit.  The call starts at the price lookup; it    *)
(* goes on to the balance lookup only when the price lookup returned code  *)
(* 0, and to the order only when the balance lookup after it returned code *)
(* 0; the order request is sent only by a call that has got that far; and  *)
(* after a lookup that failed the call is over: an idle instance sends no  *)
(* request of a call.                                                      *)
C32_OrderedShortCircuit ==
    [][impl = "lib" =>
        /\ ev'.kind = "submit" => (call.pc = "idle" /\ call'.pc \in {"idle", "price"})
        /\ ev'.kind = "price" =>
              /\ call.pc = "price"
              /\ call'.pc = IF LookupOk(ev') THEN "size" ELSE "idle"
        /\ ev'.kind = "size" =>
              /\ call.pc = "size"
              /\ call'.pc \in {"idle", "order"}
              /\ ~LookupOk(ev') => call'.pc = "idle"
        /\ ev'.kind = "order" => (call.pc = "order" /\ call'.pc = "idle")]_vars

C32_Witness ==
    /\ impl = "lib"
    /\ ev.kind = "order"
    /\ ~ev.raised
    /\ ev.code = 0
    /\ ~ev.dup
    /\ result = RetResp(0)
    /\ Len(threads) = 1

(* C33: no exchange request is made from a channel post for a user whose   *)
(* trading flag is off at that moment (the requests of a post are those of *)
(* the process_trade_signal call made for the user); the flag is off after *)
(* the credential set-up and after stop_trading, and it goes from off to   *)
(* on only in start_trading of a user who has a client.                    *)
C33_NoRequestWhileDisabled ==
    [][/\ ev'.kind = "result"
          => (delivery.pc = "call" /\ delivery.user = ev'.user /\ Eligible(ev'.user))
       /\ ev'.kind \in {"setup", "stoptrade"} => ~trading_enabled'[ev'.user]
       /\ \A u \in Users :
            (~trading_enabled[u] /\ trading_enabled'[u])
              => /\ ev'.kind = "starttrade"
                 /\ ev'.user = u
                 /\ u \in DOMAIN user_bots]_vars

C33_Witness ==
    /\ ev.kind = "result"
    /\ ev.user = "u2"
    /\ "u1" \in DOMAIN user_bots
    /\ ~trading_enabled["u1"]
    /\ delivery # None
    /\ delivery.result # RetNone

====
